---- MODULE Spec2Model ----
(***************************************************************************)
(* Model of the glyph pipeline of skeleton_utils.py and its callers:       *)
(*   skeletonize / zhang_suen_thinning  (binary grid -> skeleton)          *)
(*   trace_skeleton / smooth_path       (skeleton -> paths)                *)
(*   process_font's dot placement       (paths -> dot markers)             *)
(*                                                                         *)
(* A grid is a sequence of rows, each a sequence of 0/1, as the Python     *)
(* list of lists.  Python indexes from 0, TLA+ sequences from 1: pixel     *)
(* (r, c) of the code is g[r+1][c+1] here.  Operators that take or return  *)
(* (r, c) pairs use the code's 0-based coordinates.                        *)
(***************************************************************************)
EXTENDS Integers, Sequences, FiniteSets, TLC

\* ------------------------------------------------------------------ bounds
\* Largest input grid of the thinning and pipeline specifications: at most
\* MaxRows rows, MaxCols columns and MaxCells pixels.
MaxRows == 3
MaxCols == 4
MaxCells == 12
\* Largest skeleton of the tracing specification.
MaxTraceRows == 3
MaxTraceCols == 5
MaxTraceCells == 15
MaxTraceNodes == 5
\* The dot placement specification: path points on the pixel lattice
\* (0..MaxX) x (0..MaxY), at most MaxPoints points per glyph, and a dot
\* spacing of 1..MaxSpacing pixels.
MaxX == 3
MaxY == 1
MaxPoints == 3
MaxSpacing == 3
\* Largest input grid of the sparse thinning specification, and the most
\* foreground pixels it holds.
MaxSparseRows == 4
MaxSparseCols == 4
MaxSparsePixels == 8
\* The smoothing specification: paths of at most MaxSmoothLen points with
\* pixel coordinates in 0..MaxSmoothCoord, smoothed 0..MaxSmoothIters times.
MaxSmoothLen == 4
MaxSmoothCoord == 1
MaxSmoothIters == 2
\* The dash placement specification: path points on the pixel lattice
\* (0..MaxDashX) x (0..1), at most MaxPoints points per glyph, and a dash
\* length (>= 1), a gap (>= 1) and a number of smoothing iterations (>= 0,
\* at most MaxSmoothIters) that add up to at most MaxDashParams.
MaxDashX == 3
MaxDashParams == 3
\* The font specification: two glyphs, each one row of at most MaxGlyphCols
\* pixels, and a dot spacing of at most MaxSpacing pixels.
MaxGlyphCols == 3
\* Largest input grid of the rectangle specification.
MaxRectRows == 5
MaxRectCols == 5

VARIABLES
    pc,         \* position in the pipeline
    image,      \* skeletonize's argument
    img,        \* zhang_suen_thinning's working copy (padded)
    changed,    \* the while loop's flag
    passes,     \* full passes of the while loop executed so far
    hist,       \* history: pixels deleted by each sub-iteration so far
    result,     \* skeletonize's return value
    skeleton,       \* trace_skeleton's argument
    endpoints,      \* trace_skeleton's endpoints set
    junctions,      \* trace_skeleton's junctions set
    pending,        \* the start nodes the outer for loop has not reached yet
    visited_edges,  \* trace_skeleton's visited_edges set
    walks,          \* history: the (r, c) walk behind each entry of paths
    paths,          \* trace_skeleton's paths list, its return value
    font_paths,     \* process_font's paths of the glyph being processed
    pixel_spacing,  \* process_font's pixel_spacing
    placed_dots_px, \* process_font's list of accepted dot positions
    candidates,     \* history: every call of add_dot_checked and its outcome
    path_idx,       \* index of the path the for loop over paths is at
    seg_idx,        \* the segment loop's i
    dist_acc,       \* distance walked since the last dot candidate
    sm_path,        \* smooth_path's argument path
    sm_iterations,  \* smooth_path's argument iterations
    smoothed,       \* smooth_path's list smoothed
    sm_hist,        \* history: smoothed after each iteration so far
    sm_result,      \* smooth_path's return value
    dash_paths,         \* process_font_file's paths of the glyph processed
    smoothing_iters,    \* process_font_file's argument smoothing_iters
    pixel_dash_len,     \* process_font_file's pixel_dash_len
    pixel_stride,       \* process_font_file's pixel_stride
    dashes,             \* process_font_file's list dashes
    dash_path,          \* the path being walked, smoothed if requested
    dash_path_idx,      \* index of the path the for loop over paths is at
    dash_seg_idx,       \* the segment loop's i
    current_path_dist,  \* length of the segments walked on this path
    next_dash_center,   \* arc length of the next dash centre
    glyph,      \* the glyf table entry of the glyph being processed
    count,      \* the number of glyphs rewritten so far
    glyph_order,    \* process_font's glyphs to process: the grid of each
    name_idx,       \* index of the glyph the for loop over glyph_order is at
    produced        \* history: the paths, dots and entry each glyph ended with

thinvars == <<image, img, changed, passes, hist, result>>

tracevars == <<skeleton, endpoints, junctions, pending, visited_edges, walks, paths>>

dotvars ==
    <<font_paths, pixel_spacing, placed_dots_px, candidates, path_idx, seg_idx,
      dist_acc>>

smoothvars == <<sm_path, sm_iterations, smoothed, sm_hist, sm_result>>

dashvars ==
    <<dash_paths, smoothing_iters, pixel_dash_len, pixel_stride, dashes,
      dash_path, dash_path_idx, dash_seg_idx, current_path_dist,
      next_dash_center>>

glyphvars == <<glyph, count>>

fontvars == <<glyph_order, name_idx, produced>>

\* The variables of the stages after thinning and tracing.
markervars == <<dotvars, smoothvars, dashvars, glyphvars, fontvars>>

vars ==
    <<pc, thinvars, tracevars, dotvars, smoothvars, dashvars, glyphvars,
      fontvars>>

\* ------------------------------------------------------------- grid helpers
\* All grids of `rows` rows and `cols` columns.
Grids(rows, cols) == [1..rows -> [1..cols -> {0, 1}]]

\* Foreground pixels of a grid, as 0-based (r, c) pairs.
Foreground(g) ==
    {<<r, c>> \in (0..Len(g)-1) \X (0..(IF Len(g) = 0 THEN 0 ELSE Len(g[1]))-1) :
        g[r+1][c+1] = 1}

Count(g) == Cardinality(Foreground(g))

\* ------------------------------------------------------ zhang_suen_thinning
\* get_pixel: 0 outside the grid.
get_pixel(g, r, c) ==
    IF 0 <= r /\ r < Len(g) /\ 0 <= c /\ c < Len(g[1]) THEN g[r+1][c+1] ELSE 0

\* count_neighbors: the ring P2..P9, clockwise from north.
count_neighbors(g, r, c) ==
    << get_pixel(g, r-1, c),   get_pixel(g, r-1, c+1),
       get_pixel(g, r,   c+1), get_pixel(g, r+1, c+1),
       get_pixel(g, r+1, c),   get_pixel(g, r+1, c-1),
       get_pixel(g, r,   c-1), get_pixel(g, r-1, c-1) >>

\* transitions: 0 -> 1 steps in P2, P3, ..., P9, P2.
Up(a, b) == IF a = 0 /\ b = 1 THEN 1 ELSE 0

transitions(n) ==
    Up(n[1], n[2]) + Up(n[2], n[3]) + Up(n[3], n[4]) + Up(n[4], n[5])
        + Up(n[5], n[6]) + Up(n[6], n[7]) + Up(n[7], n[8]) + Up(n[8], n[1])

SumRing(n) == n[1] + n[2] + n[3] + n[4] + n[5] + n[6] + n[7] + n[8]

\* The deletion test of step 1 and of step 2 on a ring.
Step1Cond_NoTransitions(n) ==
    /\ SumRing(n) \in 2..6
    /\ n[1] * n[3] * n[5] = 0
    /\ n[3] * n[5] * n[7] = 0

Step1Cond(n) ==
    /\ SumRing(n) \in 2..6
    /\ transitions(n) = 1
    /\ n[1] * n[3] * n[5] = 0
    /\ n[3] * n[5] * n[7] = 0

Step2Cond(n) ==
    /\ SumRing(n) \in 2..6
    /\ transitions(n) = 1
    /\ n[1] * n[3] * n[7] = 0
    /\ n[1] * n[5] * n[7] = 0

\* The pixels the two for loops visit: range(1, rows-1) x range(1, cols-1).
Scanned(g) == (1..Len(g)-2) \X (1..Len(g[1])-2)

\* A scan that clears each marked pixel at once, before the next is examined.
RECURSIVE to_delete_in_place_from(_, _, _, _)
to_delete_in_place_from(g, step, k, D) ==
    LET w == Len(g[1]) - 2
        r == 1 + (k \div w)
        c == 1 + (k % w)
    IN  IF w <= 0 \/ k >= (Len(g) - 2) * w THEN D
        ELSE IF /\ g[r+1][c+1] # 0
                /\ \E nbrs \in {count_neighbors(g, r, c)} :
                     IF step = 1 THEN Step1Cond(nbrs) ELSE Step2Cond(nbrs)
             THEN to_delete_in_place_from([g EXCEPT ![r+1][c+1] = 0], step,
                                          k + 1, D \cup {<<r, c>>})
             ELSE to_delete_in_place_from(g, step, k + 1, D)

to_delete_in_place(g, step) == to_delete_in_place_from(g, step, 0, {})

\* to_delete of a step: decided on g as it is when the step starts.
to_delete(g, step) ==
    {p \in Scanned(g) :
        /\ g[p[1]+1][p[2]+1] # 0
        /\ \E nbrs \in {count_neighbors(g, p[1], p[2])} :
             IF step = 1 THEN Step1Cond(nbrs) ELSE Step2Cond(nbrs)}

\* for r, c in to_delete: img[r][c] = 0
Clear(g, D) ==
    [r \in 1..Len(g) |->
        [c \in 1..Len(g[r]) |->
            IF g[r][c] # 0 /\ <<r-1, c-1>> \in D THEN 0 ELSE g[r][c]]]

\* -------------------------------------------------------------- skeletonize
Zeros(n) == [i \in 1..n |-> 0]

\* padded_image: one row/column of 0 on every side.
Pad(g) ==
    <<Zeros(Len(g[1]) + 2)>>
        \o [r \in 1..Len(g) |-> <<0>> \o g[r] \o <<0>>]
        \o <<Zeros(Len(g[1]) + 2)>>

Unpad_None(t) == t

\* result: rows 1..rows of thinned, columns 1..cols.
Unpad(t) ==
    [r \in 1..Len(t)-2 |-> [c \in 1..Len(t[1])-2 |-> t[r+1][c+1]]]

\* zhang_suen_thinning as a function: passes of step 1 then step 2 until a
\* pass deletes nothing (changed stays False).
RECURSIVE zhang_suen_thinning(_)
zhang_suen_thinning(g) ==
    LET g1 == Clear(g, to_delete(g, 1))
        g2 == Clear(g1, to_delete(g1, 2))
    IN  IF g2 = g THEN g ELSE zhang_suen_thinning(g2)

\* skeletonize as a function.
skeletonize(g) ==
    IF Len(g) = 0 THEN g ELSE Unpad(zhang_suen_thinning(Pad(g)))

\* skeletonize's entry: the early return on no rows, else pad, copy, and
\* enter the while loop (changed = True, so its first test passes).
SkeletonizeCall ==
    /\ pc = "skeletonize"
    /\ IF Len(image) = 0
         THEN /\ result' = image
              /\ pc' = "returned"
              /\ UNCHANGED <<img, changed>>
         ELSE /\ img' = Pad(image)
              /\ changed' = FALSE
              /\ pc' = "step1"
              /\ UNCHANGED result
    /\ UNCHANGED <<image, passes, hist, tracevars, markervars>>

\* Step 1: mark, then clear the marked pixels together.
Step1 ==
    /\ pc = "step1"
    /\ \E D \in {to_delete(img, 1)} :
        /\ img' = Clear(img, D)
        /\ changed' = (D # {})
        /\ hist' = Append(hist, Cardinality(D))
    /\ pc' = "step2"
    /\ UNCHANGED <<image, passes, result, tracevars, markervars>>

\* Whether the pass set changed: step 1 set it (changed1) or step 2 deleted.
LoopAgain_Step2Only(changed1, D2) == D2 # {}

LoopAgain_Never(changed1, D2) == FALSE

LoopAgain(changed1, D2) == changed1 \/ D2 # {}

\* The while test after a pass: another pass (changed = False at its top), or
\* zhang_suen_thinning returns img and skeletonize unpads it.
LoopOrReturn(thinned, again) ==
    IF again
      THEN /\ changed' = FALSE
           /\ pc' = "step1"
           /\ UNCHANGED result
      ELSE /\ changed' = FALSE
           /\ result' = Unpad(thinned)
           /\ pc' = "returned"

\* Step 2, which ends the pass, and the while test that follows it.
Step2 ==
    /\ pc = "step2"
    /\ \E D \in {to_delete(img, 2)} :
        /\ img' = Clear(img, D)
        /\ hist' = Append(hist, Cardinality(D))
        /\ LoopOrReturn(img', LoopAgain(changed, D))
    /\ passes' = passes + 1
    /\ UNCHANGED <<image, tracevars, markervars>>

\* Before trace_skeleton is called its locals hold nothing.
TraceIdle ==
    /\ skeleton = <<>>
    /\ endpoints = {}
    /\ junctions = {}
    /\ pending = {}
    /\ visited_edges = {}
    /\ walks = <<>>
    /\ paths = <<>>

\* Before a glyph's dots are generated the dot stage holds nothing.
DotIdle ==
    /\ font_paths = <<>>
    /\ pixel_spacing = 0
    /\ placed_dots_px = <<>>
    /\ candidates = <<>>
    /\ path_idx = 0
    /\ seg_idx = 0
    /\ dist_acc = 0

\* Before skeletonize is called its locals hold nothing.
ThinIdle ==
    /\ image = <<>>
    /\ img = <<>>
    /\ changed = FALSE
    /\ passes = 0
    /\ hist = <<>>
    /\ result = <<>>

\* Before smooth_path is called its locals hold nothing.
SmoothIdle ==
    /\ sm_path = <<>>
    /\ sm_iterations = 0
    /\ smoothed = <<>>
    /\ sm_hist = <<>>
    /\ sm_result = <<>>

\* Before a glyph's dashes are generated the dash stage holds nothing.
DashIdle ==
    /\ dash_paths = <<>>
    /\ smoothing_iters = 0
    /\ pixel_dash_len = 0
    /\ pixel_stride = 0
    /\ dashes = <<>>
    /\ dash_path = <<>>
    /\ dash_path_idx = 0
    /\ dash_seg_idx = 0
    /\ current_path_dist = 0
    /\ next_dash_center = 0

\* A glyf table entry as the marker stages find it: a simple glyph, of one
\* contour here, without components.
OriginalGlyph == [numberOfContours |-> 1, components |-> <<>>]

\* No glyph has been rewritten.
GlyphIdle ==
    /\ glyph = OriginalGlyph
    /\ count = 0

\* Outside the loop over glyph_order the loop's variables hold nothing.
FontIdle ==
    /\ glyph_order = <<>>
    /\ name_idx = 0
    /\ produced = <<>>

\* The sizes of the input grids of the thinning specification: every grid of
\* at most MaxRows x MaxCols and MaxCells pixels, the grid of no rows and the
\* grids of no columns included.
ThinDims ==
    {d \in (0..MaxRows) \X (0..MaxCols) : d[1] * d[2] <= MaxCells}

InitThin ==
    /\ \E d \in ThinDims : image \in Grids(d[1], d[2])
    /\ pc = "skeletonize"
    /\ img = <<>>
    /\ changed = FALSE
    /\ passes = 0
    /\ hist = <<>>
    /\ result = <<>>
    /\ TraceIdle
    /\ DotIdle
    /\ SmoothIdle
    /\ DashIdle
    /\ GlyphIdle
    /\ FontIdle

NextThin == SkeletonizeCall \/ Step1 \/ Step2

SpecThin == InitThin /\ [][NextThin]_vars

\* The rectangle specification: skeletonize on every grid of at most
\* MaxRectRows x MaxRectCols whose foreground is one filled axis-aligned
\* rectangle of h x w pixels with its top-left corner at (r0, c0).
RectGrid(rows, cols, r0, c0, h, w) ==
    [r \in 1..rows |->
        [c \in 1..cols |->
            IF r - 1 \in r0..(r0 + h - 1) /\ c - 1 \in c0..(c0 + w - 1)
              THEN 1 ELSE 0]]

RectInputs ==
    UNION {UNION {{RectGrid(rows, cols, r0, c0, h, w) :
                      h \in 1..(rows - r0), w \in 1..(cols - c0)} :
                  r0 \in 0..(rows - 1), c0 \in 0..(cols - 1)} :
           rows \in 1..MaxRectRows, cols \in 1..MaxRectCols}

InitRect ==
    /\ image \in RectInputs
    /\ pc = "skeletonize"
    /\ img = <<>>
    /\ changed = FALSE
    /\ passes = 0
    /\ hist = <<>>
    /\ result = <<>>
    /\ TraceIdle
    /\ DotIdle
    /\ SmoothIdle
    /\ DashIdle
    /\ GlyphIdle
    /\ FontIdle

SpecRect == InitRect /\ [][NextThin]_vars

\* skeletonize on every grid of at most MaxSparseRows x MaxSparseCols with at
\* most MaxSparsePixels foreground pixels.
InitSparse ==
    /\ \E rows \in 1..MaxSparseRows, cols \in 1..MaxSparseCols :
           image \in Grids(rows, cols)
    /\ Count(image) <= MaxSparsePixels
    /\ pc = "skeletonize"
    /\ img = <<>>
    /\ changed = FALSE
    /\ passes = 0
    /\ hist = <<>>
    /\ result = <<>>
    /\ TraceIdle
    /\ DotIdle
    /\ SmoothIdle
    /\ DashIdle
    /\ GlyphIdle
    /\ FontIdle

SpecSparse == InitSparse /\ [][NextThin]_vars

\* -------------------------------------------------------------- smooth_path
\* smooth_path's default number of iterations.
DefaultIterations == 3

\* A path point is an (x, y) pair of integers in units of 1/Unit pixel.  The
\* tracer's points start as whole pixels, so each of the DefaultIterations
\* divisions by 4 is exact and the integers are the floats of the code.
Unit == 4 ^ DefaultIterations

\* One iteration that overwrites each interior point at once, so that the
\* next point is averaged with an updated neighbour.
RECURSIVE SmoothRound_InPlace_From(_, _)
SmoothRound_InPlace_From(p, i) ==
    IF i >= Len(p) THEN p
    ELSE SmoothRound_InPlace_From(
             [p EXCEPT ![i] = << (p[i-1][1] + 2 * p[i][1] + p[i+1][1]) \div 4,
                                 (p[i-1][2] + 2 * p[i][2] + p[i+1][2]) \div 4 >>],
             i + 1)

SmoothRound_InPlace(p) == SmoothRound_InPlace_From(p, 2)

\* One round that smooths the first point too, towards the second.
SmoothRound_MovesFirst(p) ==
    [i \in 1..Len(p) |->
        IF i = 1 THEN <<(p[1][1] + p[2][1]) \div 2, (p[1][2] + p[2][2]) \div 2>>
        ELSE p[i]]

\* One iteration: every interior point from its old neighbours, ends kept.
SmoothRound(p) ==
    [i \in 1..Len(p) |->
        IF i = 1 \/ i = Len(p)
          THEN p[i]
          ELSE << (p[i-1][1] + 2 * p[i][1] + p[i+1][1]) \div 4,
                  (p[i-1][2] + 2 * p[i][2] + p[i+1][2]) \div 4 >>]

RECURSIVE SmoothRounds(_, _)
SmoothRounds(p, k) == IF k = 0 THEN p ELSE SmoothRounds(SmoothRound(p), k - 1)

smooth_path(path, iterations) ==
    IF Len(path) < 3 THEN path ELSE SmoothRounds(path, iterations)

\* ----------------------------------------------------------- trace_skeleton
\* The (dr, dc) pairs in the order of get_neighbors' two for loops.
Offsets ==
    << <<-1, -1>>, <<-1, 0>>, <<-1, 1>>, <<0, -1>>,
       <<0, 1>>,   <<1, -1>>, <<1, 0>>,  <<1, 1>> >>

\* get_neighbors: the foreground 8-neighbours of (r, c), in Offsets order.
get_neighbors(sk, r, c) ==
    SelectSeq([i \in 1..8 |-> <<r + Offsets[i][1], c + Offsets[i][2]>>],
              LAMBDA q : /\ 0 <= q[1] /\ q[1] < Len(sk)
                         /\ 0 <= q[2] /\ q[2] < Len(sk[1])
                         /\ sk[q[1]+1][q[2]+1] = 1)

\* graph[n]
graph(sk, n) == get_neighbors(sk, n[1], n[2])

\* nodes[0]: the first foreground pixel in row-major order.
FirstNode(sk) ==
    CHOOSE n \in Foreground(sk) :
        \A m \in Foreground(sk) :
            n[1] < m[1] \/ (n[1] = m[1] /\ n[2] <= m[2])

\* junctions: the nodes of degree other than 1 and 2.
JunctionsOf(sk) == {n \in Foreground(sk) : Len(graph(sk, n)) \notin {1, 2}}

\* endpoints: the nodes of degree 1; when the skeleton has no endpoint and
\* no junction at all, nodes[0].
EndpointsOf(sk) ==
    LET E == {n \in Foreground(sk) : Len(graph(sk, n)) = 1}
    IN  IF E = {} /\ JunctionsOf(sk) = {} /\ Foreground(sk) # {}
          THEN {FirstNode(sk)} ELSE E

\* The neighbours the walk may continue to: graph[curr] without prev; next_n
\* is the first of them, None when there is none.
Others_KeepsPrev(sk, curr, prev) == graph(sk, curr)

Others(sk, curr, prev) == SelectSeq(graph(sk, curr), LAMBDA n : n # prev)

\* The while True loop of one walk, from the state w = [path, visited, prev,
\* curr] to the state at its break.
RECURSIVE WalkLoop(_, _, _, _, _)
WalkLoop(sk, J, E, start_node, w) ==
    IF w.curr \in J \/ w.curr \in E
      THEN w
      ELSE LET others == Others(sk, w.curr, w.prev)
           IN  IF others = <<>>
                 THEN w
                 ELSE LET next_n == Head(others)
                          edge == {w.curr, next_n}
                      IN  IF edge \in w.visited
                            THEN w
                            ELSE LET w2 == [path |-> Append(w.path, next_n),
                                            visited |-> w.visited \cup {edge},
                                            prev |-> w.curr,
                                            curr |-> next_n]
                                 IN  IF next_n = start_node
                                       THEN w2
                                       ELSE WalkLoop(sk, J, E, start_node, w2)

\* (r, c) nodes to (x, y) points.
ToXY(path) == [i \in 1..Len(path) |-> <<path[i][2] * Unit, path[i][1] * Unit>>]

\* What is appended to paths for a walk: smoothed when it has over 2 points.
PathOf(path) ==
    IF Len(path) > 2 THEN smooth_path(ToXY(path), DefaultIterations)
                     ELSE ToXY(path)

\* The inner for loop without its test of visited_edges.
RECURSIVE FromNeighbors_Unchecked(_, _, _, _, _, _)
FromNeighbors_Unchecked(sk, J, E, start_node, i, t) ==
    IF i > Len(graph(sk, start_node))
      THEN t
      ELSE LET neighbor == graph(sk, start_node)[i]
               w == WalkLoop(sk, J, E, start_node,
                        [path |-> <<start_node, neighbor>>,
                         visited |-> t.visited \cup {{start_node, neighbor}},
                         prev |-> start_node,
                         curr |-> neighbor])
           IN  FromNeighbors_Unchecked(sk, J, E, start_node, i + 1,
                   [visited |-> w.visited,
                    walks |-> Append(t.walks, w.path),
                    paths |-> Append(t.paths, PathOf(w.path))])

\* The inner for loop over graph[start_node] from its i-th neighbour on, from
\* the state t = [visited, walks, paths] to the state at its end.
RECURSIVE FromNeighbors(_, _, _, _, _, _)
FromNeighbors(sk, J, E, start_node, i, t) ==
    IF i > Len(graph(sk, start_node))
      THEN t
      ELSE LET neighbor == graph(sk, start_node)[i]
               edge == {start_node, neighbor}
           IN  IF edge \in t.visited
                 THEN FromNeighbors(sk, J, E, start_node, i + 1, t)
                 ELSE LET w == WalkLoop(sk, J, E, start_node,
                                    [path |-> <<start_node, neighbor>>,
                                     visited |-> t.visited \cup {edge},
                                     prev |-> start_node,
                                     curr |-> neighbor])
                      IN  FromNeighbors(sk, J, E, start_node, i + 1,
                              [visited |-> w.visited,
                               walks |-> Append(t.walks, w.path),
                               paths |-> Append(t.paths, PathOf(w.path))])

\* start_nodes, as a set: the endpoints and the junctions, nodes[0] if there
\* is neither.
StartNodes(sk) ==
    IF EndpointsOf(sk) \cup JunctionsOf(sk) = {}
      THEN {FirstNode(sk)}
      ELSE EndpointsOf(sk) \cup JunctionsOf(sk)

\* The set left in visited_edges by the call before.
NewVisitedEdges_Kept == visited_edges

\* visited_edges = set(): every call of trace_skeleton makes its own set.
NewVisitedEdges == {}

\* trace_skeleton's entry on skeletonize's result: len(skeleton[0]) raises
\* IndexError on a skeleton of no rows; no node returns []; else the graph is
\* built, the nodes are classified and the outer loop is entered with
\* visited_edges and paths of its own, both empty.
TraceCall ==
    /\ pc = "returned"
    /\ skeleton' = result
    /\ IF Len(result) = 0
         THEN /\ pc' = "IndexError"
              /\ UNCHANGED <<endpoints, junctions, pending>>
         ELSE IF Foreground(result) = {}
           THEN /\ pc' = "traced"
                /\ UNCHANGED <<endpoints, junctions, pending>>
           ELSE /\ pc' = "tracing"
                /\ endpoints' = EndpointsOf(result)
                /\ junctions' = JunctionsOf(result)
                /\ pending' = StartNodes(result)
    /\ visited_edges' = NewVisitedEdges
    /\ walks' = <<>>
    /\ paths' = <<>>
    /\ UNCHANGED <<thinvars, markervars>>

\* start_nodes = list(endpoints) + list(junctions): the endpoints in the order
\* their set iterates in, whichever it is, and then the junctions likewise.
NextStarts ==
    IF pending \cap endpoints # {} THEN pending \cap endpoints ELSE pending

\* One iteration of the outer for loop; after the last one paths is returned.
TraceFrom(start_node) ==
    /\ pc = "tracing"
    /\ start_node \in NextStarts
    /\ \E t \in {FromNeighbors(skeleton, junctions, endpoints, start_node, 1,
                    [visited |-> visited_edges, walks |-> walks, paths |-> paths])} :
        /\ visited_edges' = t.visited
        /\ walks' = t.walks
        /\ paths' = t.paths
    /\ pending' = pending \ {start_node}
    /\ pc' = IF pending' = {} THEN "traced" ELSE "tracing"
    /\ UNCHANGED <<thinvars, markervars, skeleton, endpoints, junctions>>

NextTrace == TraceCall \/ \E start_node \in pending : TraceFrom(start_node)

\* The pipeline of process_font on one glyph's grid: skeletonize, then
\* trace_skeleton on its result.
Init == InitThin

Next == NextThin \/ NextTrace

Spec == Init /\ [][Next]_vars

\* The tracing specification: trace_skeleton on every skeleton of at most
\* MaxTraceRows x MaxTraceCols and MaxTraceCells pixels, at most MaxTraceNodes
\* of them foreground, a skeleton being a grid that skeletonize returns as it
\* is.  It starts where skeletonize has
\* returned such a grid: one pass that deleted nothing, none for no rows.
TraceDims ==
    {d \in (0..MaxTraceRows) \X (0..MaxTraceCols) :
        d[1] * d[2] <= MaxTraceCells}

InitTrace ==
    /\ \E d \in TraceDims : image \in Grids(d[1], d[2])
    /\ Count(image) <= MaxTraceNodes
    /\ skeletonize(image) = image
    /\ pc = "returned"
    /\ result = image
    /\ img = IF Len(image) = 0 THEN <<>> ELSE Pad(image)
    /\ changed = FALSE
    /\ passes = IF Len(image) = 0 THEN 0 ELSE 1
    /\ hist = IF Len(image) = 0 THEN <<>> ELSE <<0, 0>>
    /\ TraceIdle
    /\ DotIdle
    /\ SmoothIdle
    /\ DashIdle
    /\ GlyphIdle
    /\ FontIdle

SpecTrace == InitTrace /\ [][NextTrace]_vars

\* ------------------------------------- dot placement (create_skeleton_font)

\* The minimum separation ratio 0.6 of min_dist_sq, as the fraction 3 / 5.
RatioNum == 3
RatioDen == 5

\* Positions and lengths of the dot stage are counted in 1/DotUnit pixel:
\* fifths of a pixel hold 0.6 * pixel_spacing and every point of the segments
\* drawn below exactly.
DotUnit == RatioDen

Abs(n) == IF n < 0 THEN -n ELSE n

\* math.hypot, on the arguments whose hypotenuse is a whole number of units.
hypot(dx, dy) ==
    IF dx = 0 THEN Abs(dy)
    ELSE IF dy = 0 THEN Abs(dx)
    ELSE CHOOSE d \in 0..(Abs(dx) + Abs(dy)) : d * d = dx * dx + dy * dy

min_dist_sq(spacing_px) == ((spacing_px * RatioNum) \div RatioDen) ^ 2

\* add_dot_checked's loop over placed_dots_px: no placed dot is too close.
FarEnough(placed, spacing_px, p) ==
    \A i \in 1..Len(placed) :
        ~ ((p[1] - placed[i][1]) ^ 2 + (p[2] - placed[i][2]) ^ 2
               < min_dist_sq(spacing_px))

add_dot_unchecked(placed, spacing_px, p) == Append(placed, p)

\* add_dot_checked: the list of placed dots after the call.
add_dot_checked(placed, spacing_px, p) ==
    IF FarEnough(placed, spacing_px, p) THEN Append(placed, p) ELSE placed

\* One call of add_dot_checked on the dot state d = [placed, cands] for the
\* path k: the candidate is recorded in the history with the call's outcome.
Offer(d, spacing_px, k, p) ==
    LET placed == add_dot_checked(d.placed, spacing_px, p)
    IN  [placed |-> placed,
         cands  |-> Append(d.cands,
                        [path |-> k, pt |-> p,
                         accepted |-> Len(placed) > Len(d.placed)])]

\* The while loop of a segment from p1 to p2 of length d: a candidate every
\* pixel_spacing from current_d on, as long as current_d <= d.
RECURSIVE WalkSegment(_, _, _, _, _, _, _)
WalkSegment(st, spacing_px, k, p1, p2, d, current_d) ==
    IF current_d <= d
    THEN LET nx == p1[1] + ((p2[1] - p1[1]) * current_d) \div d
             ny == p1[2] + ((p2[2] - p1[2]) * current_d) \div d
         IN  WalkSegment(Offer(st, spacing_px, k, <<nx, ny>>), spacing_px, k,
                         p1, p2, d, current_d + spacing_px)
    ELSE [placed |-> st.placed, cands |-> st.cands, current_d |-> current_d]

dist_acc_reset(d, current_d, spacing_px) == 0

\* The distance left over after the last candidate of a segment.
dist_acc_after(d, current_d, spacing_px) == d - (current_d - spacing_px)

RewriteGlyph_Always(n, name, flags) ==
    /\ glyph' = [numberOfContours |-> -1,
                 components |-> [i \in 1..n |->
                                    [glyphName |-> name, flags |-> flags]]]
    /\ count' = count + 1

\* What follows the marker loops for a glyph with n markers: without a
\* marker the glyph is left alone, otherwise its entry becomes a composite
\* of one component per marker and the glyph is counted.  A component is
\* kept as its glyph name and flags; its position is that of its marker.
RewriteGlyph(n, name, flags) ==
    IF n = 0
    THEN UNCHANGED <<glyph, count>>
    ELSE /\ glyph' = [numberOfContours |-> -1,
                      components |-> [i \in 1..n |->
                                         [glyphName |-> name, flags |-> flags]]]
         /\ count' = count + 1

\* The for loop over paths moves on to the path k (0-based); after the last
\* path the glyph is rewritten from the dots placed.
NextPath(k) ==
    /\ path_idx' = k
    /\ seg_idx' = 0
    /\ IF k < Len(font_paths)
       THEN /\ pc' = "path"
            /\ UNCHANGED <<glyph, count>>
       ELSE /\ pc' = "dots_done"
            /\ RewriteGlyph(Len(placed_dots_px'), "dot", 0)

\* The segment loop moves on to i, or ends and with it the path's iteration.
NextSegment(i) ==
    IF i < Len(font_paths[path_idx + 1]) - 1
    THEN /\ seg_idx' = i
         /\ pc' = "segment"
         /\ UNCHANGED <<path_idx, glyph, count>>
    ELSE NextPath(path_idx + 1)

\* One iteration of the for loop over paths, up to its segment loop: an
\* empty path is skipped, otherwise the path's first point is offered as a
\* dot and the accumulator starts at zero.
PathStart ==
    /\ pc = "path"
    /\ LET path == font_paths[path_idx + 1]
       IN  IF Len(path) = 0
           THEN /\ UNCHANGED <<placed_dots_px, candidates, dist_acc>>
                /\ NextPath(path_idx + 1)
           ELSE /\ \E st \in {Offer([placed |-> placed_dots_px,
                                     cands |-> candidates],
                                    pixel_spacing, path_idx, path[1])} :
                       /\ placed_dots_px' = st.placed
                       /\ candidates' = st.cands
                /\ dist_acc' = 0
                /\ NextSegment(0)
    /\ UNCHANGED <<font_paths, pixel_spacing, thinvars, tracevars, smoothvars,
                   dashvars, fontvars>>

\* One iteration of the segment loop.
Segment ==
    /\ pc = "segment"
    /\ LET path   == font_paths[path_idx + 1]
           p1     == path[seg_idx + 1]
           p2     == path[seg_idx + 2]
           d      == hypot(p2[1] - p1[1], p2[2] - p1[2])
           needed == pixel_spacing - dist_acc
       IN  IF d = 0
           THEN UNCHANGED <<placed_dots_px, candidates, dist_acc>>
           ELSE IF d < needed
           THEN /\ dist_acc' = dist_acc + d
                /\ UNCHANGED <<placed_dots_px, candidates>>
           ELSE \E st \in {WalkSegment([placed |-> placed_dots_px,
                                        cands |-> candidates],
                                       pixel_spacing, path_idx, p1, p2, d,
                                       needed)} :
                    /\ placed_dots_px' = st.placed
                    /\ candidates' = st.cands
                    /\ dist_acc' =
                           dist_acc_after(d, st.current_d, pixel_spacing)
    /\ NextSegment(seg_idx + 1)
    /\ UNCHANGED <<font_paths, pixel_spacing, thinvars, tracevars, smoothvars,
                   dashvars, fontvars>>

NextDots == PathStart \/ Segment

\* The points of the pixel lattice.
PixelPoints == {<<x * DotUnit, y * DotUnit>> : x \in 0..MaxX, y \in 0..MaxY}

\* A segment whose length is a whole number of pixels and on which every
\* point at a whole number of pixels from its start is a whole number of
\* units: a repeated point, an axis-parallel segment or a 3-4-5 one.
ExactSegment(p, q) ==
    LET dx == q[1] - p[1]
        dy == q[2] - p[2]
    IN  \E d \in 0..(Abs(dx) + Abs(dy)) :
            /\ d * d = dx * dx + dy * dy
            /\ d % DotUnit = 0
            /\ d = 0 \/ ((DotUnit * dx) % d = 0 /\ (DotUnit * dy) % d = 0)

\* The paths of n points.
PathsOfLen(n) ==
    {path \in [1..n -> PixelPoints] :
        \A i \in 1..(n - 1) : ExactSegment(path[i], path[i + 1])}

\* The glyphs of the dot placement specification have two paths, either of
\* them possibly empty, of at most MaxPoints points together: the numbers of
\* points of the two paths.
GlyphSizes ==
    {n \in (0..MaxPoints) \X (0..MaxPoints) : n[1] + n[2] <= MaxPoints}

\* A straight horizontal path of 10 points one pixel apart, spacing 3.
SpacingScenario ==
    [spacing |-> 3 * DotUnit,
     paths   |-> << [i \in 1..10 |-> <<(i - 1) * DotUnit, 0>>], <<>> >>]

\* Two parallel straight paths one pixel apart, spacing 10.
DedupScenario ==
    [spacing |-> 10 * DotUnit,
     paths   |-> << [i \in 1..11 |-> <<(i - 1) * DotUnit, 0>>],
                    [i \in 1..11 |-> <<(i - 1) * DotUnit, DotUnit>>] >>]

\* A path of two 3-4-5 segments with a repeated point between them and a
\* second path that ends on it, spacing 2.
DiagonalScenario ==
    [spacing |-> 2 * DotUnit,
     paths   |-> << << <<0, 0>>, <<4 * DotUnit, 3 * DotUnit>>,
                       <<4 * DotUnit, 3 * DotUnit>>,
                       <<8 * DotUnit, 6 * DotUnit>> >>,
                    << <<8 * DotUnit, 0>>, <<4 * DotUnit, 3 * DotUnit>> >> >>]

DotScenarios == {SpacingScenario, DedupScenario, DiagonalScenario}

\* process_font has the paths of a glyph and is about to generate its dots.
InitDots ==
    /\ \/ \E n \in GlyphSizes, spacing \in 1..MaxSpacing :
              /\ \E first \in PathsOfLen(n[1]), second \in PathsOfLen(n[2]) :
                     font_paths = <<first, second>>
              /\ pixel_spacing = spacing * DotUnit
       \/ \E scenario \in DotScenarios :
              /\ font_paths = scenario.paths
              /\ pixel_spacing = scenario.spacing
    /\ pc = "path"
    /\ placed_dots_px = <<>>
    /\ candidates = <<>>
    /\ path_idx = 0
    /\ seg_idx = 0
    /\ dist_acc = 0
    /\ image = <<>>
    /\ img = <<>>
    /\ changed = FALSE
    /\ passes = 0
    /\ hist = <<>>
    /\ result = <<>>
    /\ TraceIdle
    /\ SmoothIdle
    /\ DashIdle
    /\ GlyphIdle
    /\ FontIdle

SpecDots == InitDots /\ [][NextDots]_vars

\* ------------------------------------------------- smooth_path, by steps

\* Points of the smoothing specification are counted in 1/SmoothUnit pixel,
\* fine enough for MaxSmoothIters divisions by 4 of whole pixels.
SmoothUnit == 4 ^ MaxSmoothIters

\* smooth_path is called: a path of fewer than 3 points is returned as it
\* is, and so is any path when there is no iteration to run.
SmoothCall ==
    /\ pc = "smooth_path"
    /\ IF Len(sm_path) < 3
       THEN /\ sm_result' = sm_path
            /\ pc' = "smooth_returned"
            /\ UNCHANGED smoothed
       ELSE /\ smoothed' = sm_path
            /\ IF sm_iterations = 0
               THEN /\ sm_result' = sm_path
                    /\ pc' = "smooth_returned"
               ELSE /\ pc' = "smooth_loop"
                    /\ UNCHANGED sm_result
    /\ UNCHANGED <<sm_path, sm_iterations, sm_hist, thinvars, tracevars,
                   dotvars, dashvars, glyphvars, fontvars>>

\* One iteration of the for loop; after the last one smoothed is returned.
SmoothIteration ==
    /\ pc = "smooth_loop"
    /\ smoothed' = SmoothRound(smoothed)
    /\ sm_hist' = Append(sm_hist, smoothed')
    /\ IF Len(sm_hist') = sm_iterations
       THEN /\ sm_result' = smoothed'
            /\ pc' = "smooth_returned"
       ELSE /\ pc' = "smooth_loop"
            /\ UNCHANGED sm_result
    /\ UNCHANGED <<sm_path, sm_iterations, thinvars, tracevars, dotvars,
                   dashvars, glyphvars, fontvars>>

NextSmooth == SmoothCall \/ SmoothIteration

SmoothPoints ==
    {<<x * SmoothUnit, y * SmoothUnit>> :
        x \in 0..MaxSmoothCoord, y \in 0..MaxSmoothCoord}

InitSmooth ==
    /\ \E n \in 0..MaxSmoothLen : sm_path \in [1..n -> SmoothPoints]
    /\ sm_iterations \in 0..MaxSmoothIters
    /\ pc = "smooth_path"
    /\ smoothed = <<>>
    /\ sm_hist = <<>>
    /\ sm_result = <<>>
    /\ ThinIdle
    /\ TraceIdle
    /\ DotIdle
    /\ DashIdle
    /\ GlyphIdle
    /\ FontIdle

SpecSmooth == InitSmooth /\ [][NextSmooth]_vars

\* ------------------------------------------------ dash placement (app.py)

\* Positions and lengths of the dash stage are counted in 1/DashUnit pixel:
\* fine enough for half a dash length and for smoothed points.
DashUnit == 2 * SmoothUnit

\* The flags of a dash component, 0x200 | 0x800.
DashFlags == 2560

\* math.atan2(dy, dx) in degrees, on the axis-parallel directions.
atan2(dy, dx) ==
    CASE dy = 0 /\ dx > 0 -> 0
      [] dy = 0 /\ dx < 0 -> 180
      [] dx = 0 /\ dy > 0 -> 90
      [] dx = 0 /\ dy < 0 -> -90

add_dash_unflipped(ds, k, arc, p, angle_deg) ==
    Append(ds, [path |-> k, arc |-> arc, pt |-> p, f_angle |-> angle_deg])

\* add_dash: the list dashes after the call.  A dash is kept as the pixel
\* point and the flipped angle f_angle (in degrees) its position and its
\* transform are computed from, with the path (0-based) and the arc length
\* at which it was emitted as history.
add_dash(ds, k, arc, p, angle_deg) ==
    Append(ds, [path |-> k, arc |-> arc, pt |-> p, f_angle |-> -angle_deg])

\* The while loop of a segment from p1 to p2 of length seg_len that starts
\* at arc length dist: a dash at every centre up to dist + seg_len.
RECURSIVE DashWalk(_, _, _, _, _, _, _, _)
DashWalk(ds, k, p1, p2, seg_len, dist, center, stride) ==
    IF center <= dist + seg_len
    THEN LET d_into_seg == center - dist
             nx == p1[1] + ((p2[1] - p1[1]) * d_into_seg) \div seg_len
             ny == p1[2] + ((p2[2] - p1[2]) * d_into_seg) \div seg_len
             angle == atan2(p2[2] - p1[2], p2[1] - p1[1])
         IN  DashWalk(add_dash(ds, k, center, <<nx, ny>>, angle), k, p1, p2,
                      seg_len, dist, center + stride, stride)
    ELSE [dashes |-> ds, center |-> center]

first_dash_center_at_start(dash_len) == 0

\* next_dash_center at the start of a path: half a dash length.
first_dash_center(dash_len) == dash_len \div 2

\* The for loop over paths moves on to the path k (0-based); after the last
\* path the glyph is rewritten from the dashes emitted.
DashNextPath(k) ==
    /\ dash_path_idx' = k
    /\ dash_seg_idx' = 0
    /\ IF k < Len(dash_paths)
       THEN /\ pc' = "dash_path"
            /\ UNCHANGED <<glyph, count>>
       ELSE /\ pc' = "dashes_done"
            /\ RewriteGlyph(Len(dashes'), "dash", DashFlags)

\* The segment loop over path moves on to i, or ends and with it the path's
\* iteration.
DashNextSegment(i, path) ==
    IF i < Len(path) - 1
    THEN /\ dash_seg_idx' = i
         /\ pc' = "dash_segment"
         /\ UNCHANGED <<dash_path_idx, glyph, count>>
    ELSE DashNextPath(dash_path_idx + 1)

\* One iteration of the for loop over paths, up to its segment loop: an
\* empty path is skipped, otherwise the path is smoothed if smoothing is
\* requested and the schedule starts over.
DashPathStart ==
    /\ pc = "dash_path"
    /\ LET path == dash_paths[dash_path_idx + 1]
       IN  IF Len(path) = 0
           THEN /\ UNCHANGED <<dashes, dash_path, current_path_dist,
                               next_dash_center>>
                /\ DashNextPath(dash_path_idx + 1)
           ELSE /\ dash_path' = IF smoothing_iters > 0
                                THEN smooth_path(path, smoothing_iters)
                                ELSE path
                /\ current_path_dist' = 0
                /\ next_dash_center' = first_dash_center(pixel_dash_len)
                /\ UNCHANGED dashes
                /\ DashNextSegment(0, dash_path')
    /\ UNCHANGED <<dash_paths, smoothing_iters, pixel_dash_len, pixel_stride,
                   thinvars, tracevars, dotvars, smoothvars, fontvars>>

\* One iteration of the segment loop.
DashSegment ==
    /\ pc = "dash_segment"
    /\ LET p1      == dash_path[dash_seg_idx + 1]
           p2      == dash_path[dash_seg_idx + 2]
           seg_len == hypot(p2[1] - p1[1], p2[2] - p1[2])
       IN  IF seg_len = 0
           THEN UNCHANGED <<dashes, current_path_dist, next_dash_center>>
           ELSE /\ \E w \in {DashWalk(dashes, dash_path_idx, p1, p2, seg_len,
                                      current_path_dist, next_dash_center,
                                      pixel_stride)} :
                       /\ dashes' = w.dashes
                       /\ next_dash_center' = w.center
                /\ current_path_dist' = current_path_dist + seg_len
    /\ DashNextSegment(dash_seg_idx + 1, dash_path)
    /\ UNCHANGED <<dash_paths, smoothing_iters, pixel_dash_len, pixel_stride,
                   dash_path, thinvars, tracevars, dotvars, smoothvars,
                   fontvars>>

NextDashes == DashPathStart \/ DashSegment

\* The points of the pixel lattice of the dash stage, two rows high.
DashPoints ==
    {<<x * DashUnit, y * DashUnit>> : x \in 0..MaxDashX, y \in {0, 1}}

\* Every segment of a path is parallel to an axis (or a repeated point).
AxisParallel(path) ==
    \A i \in 1..(Len(path) - 1) :
        path[i][1] = path[i + 1][1] \/ path[i][2] = path[i + 1][2]

\* The paths of n points that are axis-parallel as they are walked, that
\* is after the smoothing requested.
DashPathsOfLen(n, iters) ==
    {path \in [1..n -> DashPoints] :
        AxisParallel(IF iters > 0 THEN smooth_path(path, iters) ELSE path)}

\* Dash length and gap in pixels and smoothing iterations.
DashParams ==
    {t \in (1..MaxDashParams) \X (1..MaxDashParams) \X (0..MaxSmoothIters) :
        t[1] + t[2] + t[3] <= MaxDashParams}

\* One horizontal then one vertical segment, rightwards and down in the
\* first path, leftwards and up in the second; dash length 4, gap 2.
OrientationScenario ==
    [dash_len |-> 4 * DashUnit, gap |-> 2 * DashUnit, iters |-> 0,
     paths |-> << << <<0, 0>>, <<8 * DashUnit, 0>>,
                     <<8 * DashUnit, 8 * DashUnit>> >>,
                  << <<8 * DashUnit, 8 * DashUnit>>, <<0, 8 * DashUnit>>,
                     <<0, 0>> >> >>]

\* process_font_file has the paths of a glyph and is about to generate its
\* dashes.
InitDashes ==
    /\ \/ \E n \in GlyphSizes, t \in DashParams :
              /\ \E first \in DashPathsOfLen(n[1], t[3]),
                    second \in DashPathsOfLen(n[2], t[3]) :
                     dash_paths = <<first, second>>
              /\ pixel_dash_len = t[1] * DashUnit
              /\ pixel_stride = (t[1] + t[2]) * DashUnit
              /\ smoothing_iters = t[3]
       \/ \E scenario \in {OrientationScenario} :
              /\ dash_paths = scenario.paths
              /\ pixel_dash_len = scenario.dash_len
              /\ pixel_stride = scenario.dash_len + scenario.gap
              /\ smoothing_iters = scenario.iters
    /\ pc = "dash_path"
    /\ dashes = <<>>
    /\ dash_path = <<>>
    /\ dash_path_idx = 0
    /\ dash_seg_idx = 0
    /\ current_path_dist = 0
    /\ next_dash_center = 0
    /\ ThinIdle
    /\ TraceIdle
    /\ DotIdle
    /\ SmoothIdle
    /\ GlyphIdle
    /\ FontIdle

SpecDashes == InitDashes /\ [][NextDashes]_vars

\* Both marker stages, each on its own glyph.
SpecMarkers == (InitDots \/ InitDashes) /\ [][NextDots \/ NextDashes]_vars

FairSpecThin == SpecThin /\ WF_vars(NextThin)

\* ------------------------------------------------------------ connectivity
Adjacent8(p, q) ==
    /\ p # q
    /\ p[1] - q[1] \in {-1, 0, 1}
    /\ p[2] - q[2] \in {-1, 0, 1}

\* The cells of F reachable from the cells of S by 8-adjacent steps inside F.
RECURSIVE Grow(_, _)
Grow(F, S) ==
    LET T == S \cup {q \in F : \E p \in S : Adjacent8(p, q)}
    IN  IF T = S THEN S ELSE Grow(F, T)

OneComponent(F) == F # {} /\ Grow(F, {CHOOSE p \in F : TRUE}) = F

AtMostOneComponent(F) == F = {} \/ OneComponent(F)

\* ------------------------------ process_font: the loop over the glyphs
\* The tracer's paths, in 1/Unit pixel, as the dot stage counts them, in
\* 1/DotUnit pixel: the same numbers on paths of whole pixels.
InDotUnits(ps) ==
    [k \in 1..Len(ps) |->
        [i \in 1..Len(ps[k]) |->
            <<(ps[k][i][1] * DotUnit) \div Unit,
              (ps[k][i][2] * DotUnit) \div Unit>>]]

\* What a glyph ended with: its paths, its dots and its glyf table entry.
Produced(ps, dots) == [paths |-> ps, dots |-> dots, glyph |-> glyph]

\* The for loop over glyph_order takes the next glyph: it is rendered to its
\* grid and skeletonize is called on it.  Nothing else is touched: what the
\* glyph before left in the other variables is still there.
GlyphStart ==
    /\ pc = "glyph"
    /\ name_idx < Len(glyph_order)
    /\ image' = glyph_order[name_idx + 1]
    /\ glyph' = OriginalGlyph
    /\ passes' = 0
    /\ hist' = <<>>
    /\ pc' = "skeletonize"
    /\ UNCHANGED <<img, changed, result, tracevars, dotvars, smoothvars,
                   dashvars, count, fontvars>>

\* trace_skeleton has returned: without a path the loop continues with the
\* next glyph; otherwise dots and placed_dots_px are made, both empty, and
\* the loop over the paths is entered.
DotsBegin ==
    /\ pc = "traced"
    /\ IF paths = <<>>
       THEN /\ produced' = Append(produced, Produced(<<>>, <<>>))
            /\ name_idx' = name_idx + 1
            /\ pc' = "glyph"
            /\ UNCHANGED <<dotvars, glyph_order>>
       ELSE /\ font_paths' = InDotUnits(paths)
            /\ placed_dots_px' = <<>>
            /\ candidates' = <<>>
            /\ path_idx' = 0
            /\ seg_idx' = 0
            /\ pc' = "path"
            /\ UNCHANGED <<pixel_spacing, dist_acc, fontvars>>
    /\ UNCHANGED <<thinvars, tracevars, smoothvars, dashvars, glyphvars>>

\* The glyph's dots are placed and its entry rewritten if there are any: the
\* loop goes on to the next glyph.
GlyphEnd ==
    /\ pc = "dots_done"
    /\ produced' = Append(produced, Produced(paths, placed_dots_px))
    /\ name_idx' = name_idx + 1
    /\ pc' = "glyph"
    /\ UNCHANGED <<glyph_order, thinvars, tracevars, dotvars, smoothvars,
                   dashvars, glyphvars>>

NextFont ==
    \/ GlyphStart
    \/ NextThin
    \/ NextTrace
    \/ DotsBegin
    \/ NextDots
    \/ GlyphEnd

\* The grids of glyphs of straight horizontal strokes: one row of at most
\* MaxGlyphCols pixels.  Their paths are straight and of whole pixels.
GlyphGrids(cols) == Grids(1, cols)

\* A glyph of two strokes of two pixels, spacing 2: the second stroke gets
\* a dot at its start only if the distance walked on the first is dropped.
TwoStrokeScenario ==
    [spacing |-> 2 * DotUnit,
     glyphs  |-> << << <<1, 1, 0, 1, 1>> >>, << <<1, 1, 0, 1, 1>> >> >>]

\* process_font is about to process a font of two glyphs.
InitFont ==
    /\ \/ \E c1, c2 \in 1..MaxGlyphCols, spacing \in 1..MaxSpacing :
              /\ \E first \in GlyphGrids(c1), second \in GlyphGrids(c2) :
                     glyph_order = <<first, second>>
              /\ pixel_spacing = spacing * DotUnit
       \/ \E scenario \in {TwoStrokeScenario} :
              /\ glyph_order = scenario.glyphs
              /\ pixel_spacing = scenario.spacing
    /\ pc = "glyph"
    /\ name_idx = 0
    /\ produced = <<>>
    /\ font_paths = <<>>
    /\ placed_dots_px = <<>>
    /\ candidates = <<>>
    /\ path_idx = 0
    /\ seg_idx = 0
    /\ dist_acc = 0
    /\ ThinIdle
    /\ TraceIdle
    /\ SmoothIdle
    /\ DashIdle
    /\ GlyphIdle

SpecFont == InitFont /\ [][NextFont]_vars

\* ------------------------------------------------------------------ claims
\* The unordered pairs of 8-adjacent foreground pixels of a grid.
AdjacentPairs(g) ==
    {e \in {{p, q} : p, q \in Foreground(g)} : \E p, q \in e : Adjacent8(p, q)}

\* The edges a walk traverses, and their number over a list of walks.
EdgesOf(walk) == {{walk[i], walk[i+1]} : i \in 1..(Len(walk) - 1)}

RECURSIVE EdgeCount(_)
EdgeCount(ws) ==
    IF ws = <<>> THEN 0 ELSE (Len(Head(ws)) - 1) + EdgeCount(Tail(ws))

\* C1: edge coverage: when trace_skeleton has returned, the edges its walks
\* traversed are as many as the skeleton's 8-adjacent foreground pairs, and
\* every such pair is among them (a pure loop beside other components too).
C1_EdgeCoverage ==
    pc = "traced" =>
        /\ EdgeCount(walks) = Cardinality(AdjacentPairs(skeleton))
        /\ UNION {EdgesOf(walks[i]) : i \in 1..Len(walks)} = AdjacentPairs(skeleton)

\* C6: an isolated foreground pixel (no 8-adjacent foreground neighbour)
\* yields exactly one path in trace_skeleton's output, the single point
\* (x, y) = (col, row) of that pixel.
C6_IsolatedPixelPath ==
    pc = "traced" =>
        \A n \in Foreground(skeleton) :
            graph(skeleton, n) = <<>> =>
                Cardinality({i \in 1..Len(paths) :
                    paths[i] = << <<n[2] * Unit, n[1] * Unit>> >>}) = 1

\* C2: thinning never splits a component: when the input's foreground is one
\* 8-connected component, the working grid after every sub-iteration, and
\* the skeleton returned, have at most one 8-connected component.
C2_NeverSplits ==
    (pc # "skeletonize" /\ OneComponent(Foreground(image))) =>
        /\ AtMostOneComponent(Foreground(img))
        /\ pc = "returned" => AtMostOneComponent(Foreground(result))

\* C2's case: a connected input of which two passes deleted pixels, thinned
\* to a skeleton of more than one pixel.
C2_Witness ==
    /\ pc = "returned"
    /\ OneComponent(Foreground(image))
    /\ passes = 3
    /\ hist[1] + hist[2] > 0
    /\ hist[3] + hist[4] > 0
    /\ Count(result) >= 2

\* A skeleton that is one closed ring: one component, every node of degree 2.
IsRing(g) ==
    /\ OneComponent(Foreground(g))
    /\ \A n \in Foreground(g) : Len(graph(g, n)) = 2

\* C7: for a skeleton that is one closed ring of n pixels, trace_skeleton
\* returns exactly one path; it is closed (first point = last point) and
\* its walk visits every ring pixel exactly once (n + 1 points, the start
\* repeated at the end).
C7_RingOnePath ==
    (pc = "traced" /\ IsRing(skeleton)) =>
        /\ Len(paths) = 1 /\ Len(walks) = 1
        /\ LET n == Count(skeleton)
               walk == walks[1]
               path == paths[1]
           IN  /\ Len(path) = n + 1 /\ Len(walk) = n + 1
               /\ path[1] = path[n + 1]
               /\ walk[1] = walk[n + 1]
               /\ {walk[i] : i \in 1..n} = Foreground(skeleton)
               /\ path[1] = <<walk[1][2] * Unit, walk[1][1] * Unit>>

\* C7's case: the 4-pixel diamond has been traced.
C7_Witness ==
    /\ pc = "traced"
    /\ IsRing(skeleton)
    /\ Count(skeleton) = 4
    /\ Len(paths) = 1

\* An input grid with no row, no column or no foreground pixel.
Degenerate(g) == Len(g) = 0 \/ Len(g[1]) = 0 \/ Foreground(g) = {}

\* C8: for a degenerate grid skeletonize returns an empty skeleton, and
\* trace_skeleton applied to it returns the empty path list without raising.
C8_EmptyInputNoError ==
    Degenerate(image) =>
        /\ pc # "IndexError"
        /\ pc \in {"returned", "tracing", "traced"} => Foreground(result) = {}
        /\ pc = "traced" => paths = <<>>

\* Height and width of the bounding box of a grid's foreground.
BoxHeight(g) == Cardinality({p[1] : p \in Foreground(g)})
BoxWidth(g) == Cardinality({p[2] : p \in Foreground(g)})

\* C3 as stated: every filled rectangle thins to a non-empty skeleton that
\* is exactly one 8-connected component.
C3_RectangleKeepsSkeleton ==
    pc = "returned" => OneComponent(Foreground(result))

\* C3: every filled w x h rectangle other than the 2 x 2 square thins to a
\* non-empty skeleton that is exactly one 8-connected component; the 2 x 2
\* square is deleted whole by sub-iteration 1 and thins to the empty skeleton.
C3_RectangleUnlessSquare2 ==
    pc = "returned" =>
        IF BoxHeight(image) = 2 /\ BoxWidth(image) = 2
          THEN Foreground(result) = {} /\ hist[1] = 4
          ELSE OneComponent(Foreground(result))

\* C3's case: a rectangle of at least 3 x 3 that touches the grid's top and
\* left borders, thinned to fewer pixels.
C3_Witness ==
    /\ pc = "returned"
    /\ BoxHeight(image) >= 3 /\ BoxWidth(image) >= 3
    /\ image[1][1] = 1
    /\ Count(result) < Count(image)
    /\ OneComponent(Foreground(result))

\* C4: thinning is idempotent: the thinner run on the returned skeleton
\* deletes no pixel in either sub-iteration of its first pass, so that
\* skeletonize(skeletonize(G)) = skeletonize(G).
C4_Idempotent ==
    pc = "returned" =>
        /\ skeletonize(result) = result
        /\ Len(result) > 0 =>
             /\ to_delete(Pad(result), 1) = {}
             /\ to_delete(Pad(result), 2) = {}

\* C4's case: a non-empty skeleton returned after two passes deleted pixels.
C4_Witness ==
    /\ pc = "returned"
    /\ passes >= 3
    /\ Count(result) >= 1
    /\ result # image

\* C5: the thinning loop terminates: it exits after the first full pass in
\* which neither sub-iteration deletes a pixel, and an input of N foreground
\* pixels takes at most N + 1 full passes.
PassDeleted(q) == hist[2 * q - 1] + hist[2 * q]

C5_LoopShape ==
    /\ passes <= Count(image) + 1
    /\ pc = "step1" => Len(hist) = 2 * passes
    /\ pc = "step2" => Len(hist) = 2 * passes + 1
    /\ pc \in {"step1", "step2"} => \A q \in 1..passes : PassDeleted(q) > 0
    /\ (pc = "returned" /\ Len(image) > 0) =>
         /\ passes >= 1
         /\ Len(hist) = 2 * passes
         /\ PassDeleted(passes) = 0
         /\ \A q \in 1..(passes - 1) : PassDeleted(q) > 0

C5_Terminates == [](C5_LoopShape) /\ <>(pc = "returned")

\* C5's case: the loop has exited after two passes that deleted pixels and
\* a third that deleted none.
C5_Witness ==
    /\ pc = "returned"
    /\ passes = 3
    /\ PassDeleted(1) > 0 /\ PassDeleted(2) > 0 /\ PassDeleted(3) = 0

\* Squared distance of two positions, in squared units.
DistSq(p, q) == (p[1] - q[1]) ^ 2 + (p[2] - q[2]) ^ 2

\* The positions of the accepted candidates among the first n candidates.
RECURSIVE AcceptedUpTo(_)
AcceptedUpTo(n) ==
    IF n = 0 THEN <<>>
    ELSE IF candidates[n].accepted
         THEN Append(AcceptedUpTo(n - 1), candidates[n].pt)
         ELSE AcceptedUpTo(n - 1)

\* C9: at every point of a glyph's dot placement any two accepted dots,
\* of the same path or of different paths, are at pixel distance
\* >= 0.6 * pixel_spacing (squared and in units: RatioDen^2 * dist^2 >=
\* RatioNum^2 * pixel_spacing^2); a candidate is rejected exactly when it is
\* closer than that to a dot accepted before it, and a rejected candidate is
\* not recorded in placed_dots_px.
C9_DotDedup ==
    /\ \A i, j \in 1..Len(placed_dots_px) :
           i < j =>
               RatioDen ^ 2 * DistSq(placed_dots_px[i], placed_dots_px[j])
                   >= RatioNum ^ 2 * pixel_spacing ^ 2
    /\ \A n \in 1..Len(candidates) :
           candidates[n].accepted <=>
               \A q \in {AcceptedUpTo(n - 1)[i] :
                            i \in 1..Len(AcceptedUpTo(n - 1))} :
                   RatioDen ^ 2 * DistSq(candidates[n].pt, q)
                       >= RatioNum ^ 2 * pixel_spacing ^ 2
    /\ placed_dots_px = AcceptedUpTo(Len(candidates))

\* C9's case: the two parallel paths one pixel apart with spacing 10 have
\* been processed; the first path placed its dots at x = 0 and x = 10 and
\* both candidates of the second path were rejected.
C9_Witness ==
    /\ pc = "dots_done"
    /\ font_paths = DedupScenario.paths
    /\ pixel_spacing = DedupScenario.spacing
    /\ placed_dots_px = << <<0, 0>>, <<10 * DotUnit, 0>> >>
    /\ Len(candidates) = 4
    /\ ~ candidates[3].accepted /\ candidates[3].path = 1
    /\ ~ candidates[4].accepted /\ candidates[4].path = 1

\* The length of the first n segments of a path.
RECURSIVE ArcLength(_, _)
ArcLength(path, n) ==
    IF n = 0 THEN 0
    ELSE ArcLength(path, n - 1)
             + hypot(path[n + 1][1] - path[n][1], path[n + 1][2] - path[n][2])

\* The point at arc length a from the start of a path, 0 < a <= its length.
PointAtArc(path, a) ==
    LET j  == CHOOSE i \in 1..(Len(path) - 1) :
                  ArcLength(path, i - 1) < a /\ a <= ArcLength(path, i)
        t  == a - ArcLength(path, j - 1)
        d  == ArcLength(path, j) - ArcLength(path, j - 1)
    IN  <<path[j][1] + ((path[j + 1][1] - path[j][1]) * t) \div d,
          path[j][2] + ((path[j + 1][2] - path[j][2]) * t) \div d>>

\* The candidates due on a path once its first n segments are walked: the
\* first point, then the points at arc length k * pixel_spacing.
DueCandidates(path, n) ==
    <<path[1]>> \o [k \in 1..(ArcLength(path, n) \div pixel_spacing) |->
                       PointAtArc(path, k * pixel_spacing)]

\* The positions offered for the path k (0-based), in the order offered.
RECURSIVE OfferedUpTo(_, _)
OfferedUpTo(k, n) ==
    IF n = 0 THEN <<>>
    ELSE IF candidates[n].path = k
         THEN Append(OfferedUpTo(k, n - 1), candidates[n].pt)
         ELSE OfferedUpTo(k, n - 1)

\* The segments of the path k walked so far.
SegmentsDone(k) ==
    IF k < path_idx THEN Len(font_paths[k + 1]) - 1
    ELSE IF pc = "segment" THEN seg_idx ELSE 0

\* C10: on every path the dot candidates are the path's first point and
\* then exactly the points at arc length k * pixel_spacing (k = 1, 2, ...,
\* up to the length walked), one candidate each, however the path is cut
\* into segments, repeated points included; an empty path and a path not
\* reached yet have no candidate.
C10_ArcLengthSpacing ==
    \A k \in 0..(Len(font_paths) - 1) :
        LET path == font_paths[k + 1]
        IN  OfferedUpTo(k, Len(candidates)) =
                IF Len(path) = 0 \/ k > path_idx \/ (k = path_idx /\ pc = "path")
                THEN <<>>
                ELSE DueCandidates(path, SegmentsDone(k))

\* C10's case: the path (0,0)...(9,0) with spacing 3 has been walked and
\* its dots are at x = 0, 3, 6, 9.
C10_Witness ==
    /\ pc = "dots_done"
    /\ font_paths = SpacingScenario.paths
    /\ pixel_spacing = SpacingScenario.spacing
    /\ placed_dots_px = << <<0, 0>>, <<3 * DotUnit, 0>>, <<6 * DotUnit, 0>>,
                           <<9 * DotUnit, 0>> >>

\* A walked path with a repeated point, a dot inside a segment begun with a
\* non-zero accumulator, and a segment taking several dots.
C10_CarryWitness ==
    /\ pc = "dots_done"
    /\ \E k \in 0..(Len(font_paths) - 1) :
           LET path == font_paths[k + 1]
           IN  /\ Len(path) = 3
               /\ path[1] = path[2]
               /\ ArcLength(path, 2) >= 2 * pixel_spacing
               /\ Len(OfferedUpTo(k, Len(candidates))) >= 3

\* A grid holds a 2x2 block of foreground pixels.
HasBlock(g) ==
    \E r \in 1..(Len(g) - 1) :
        \E c \in 1..(Len(g[1]) - 1) :
            g[r][c] = 1 /\ g[r][c + 1] = 1 /\ g[r + 1][c] = 1 /\ g[r + 1][c + 1] = 1

\* C12: the skeleton returned by skeletonize is one pixel wide: for every
\* input grid the result holds no 2x2 block of four foreground pixels.
C12_NoBlock == pc = "returned" => ~ HasBlock(result)

\* The pixels of the straight line of len pixels from (r0, c0) in the
\* direction (dr, dc).
LinePixels(r0, c0, dr, dc, len) ==
    {<<r0 + i * dr, c0 + i * dc>> : i \in 0..(len - 1)}

\* The foreground of a grid is one straight line, 1 pixel wide: horizontal,
\* vertical or 45-degree diagonal, of length >= 1.
IsLine(g) ==
    \E p \in Foreground(g) :
        \E dir \in {<<0, 1>>, <<1, 0>>, <<1, 1>>, <<1, -1>>} :
            Foreground(g) = LinePixels(p[1], p[2], dir[1], dir[2], Count(g))

\* C13: a 1-pixel-wide straight line (horizontal, vertical or 45-degree
\* diagonal) of any length >= 1, anywhere in the grid, its outermost rows
\* and columns included, is returned unchanged by skeletonize, after a
\* single pass that deletes nothing.
C13_LineUnchanged ==
    (pc = "returned" /\ IsLine(image)) =>
        /\ result = image
        /\ passes = 1
        /\ hist = <<0, 0>>

\* C13's case: a diagonal line from corner to corner of a 3 x 3 grid has
\* been returned.
C13_Witness ==
    /\ pc = "returned"
    /\ Len(image) = 3 /\ Len(image[1]) = 3
    /\ Foreground(image) = LinePixels(0, 2, 1, -1, 3)
    /\ result = image

\* The sum of a sequence of numbers.
RECURSIVE Sum(_)
Sum(q) == IF Len(q) = 0 THEN 0 ELSE q[1] + Sum(Tail(q))

\* The thinner's working copy holds only pixels of the (padded) input, and
\* every pixel missing from it was counted as deleted by a sub-iteration;
\* the returned skeleton has the input's dimensions and only input pixels.
C16_SubsetOfInput ==
    /\ pc \in {"step1", "step2"} =>
           /\ Foreground(img) \subseteq Foreground(Pad(image))
           /\ Count(img) + Sum(hist) = Count(image)
    /\ (pc = "returned" /\ Len(image) > 0) =>
           /\ Len(result) = Len(image)
           /\ Len(result[1]) = Len(image[1])
           /\ Foreground(result) \subseteq Foreground(image)
           /\ Count(result) + Sum(hist) = Count(image)

\* A step of skeletonize leaves its argument alone, and a sub-iteration
\* only removes foreground pixels from the working copy.
C16_StepShrinks ==
    /\ image' = image
    /\ pc \in {"step1", "step2"} =>
           /\ Foreground(img') \subseteq Foreground(img)
           /\ Count(img') <= Count(img)

\* C16: thinning is monotone: after every sub-iteration the foreground is a
\* subset of the foreground before it, so the pixel count never grows from
\* pass to pass; the skeleton returned has the input's dimensions and holds
\* only pixels that were foreground in the input; the input grid is not
\* modified.
C16_Monotone == [](C16_SubsetOfInput) /\ [][C16_StepShrinks]_vars

\* C16's case: a skeleton with fewer pixels than its input has been
\* returned after two deleting passes.
C16_Witness ==
    /\ pc = "returned"
    /\ passes >= 3
    /\ Count(result) >= 1
    /\ Count(result) < Count(image)
    /\ Sum(hist) = Count(image) - Count(result)

\* The pixel P2, ..., P9 of the ring of (r, c) in the grid g (1-based here),
\* background outside the grid:   P9 P2 P3 / P8 P1 P4 / P7 P6 P5.
RingPixel(g, r, c, k) ==
    LET dr == CASE k \in {9, 2, 3} -> -1 [] k \in {8, 4} -> 0 [] OTHER -> 1
        dc == CASE k \in {9, 8, 7} -> -1 [] k \in {2, 6} -> 0 [] OTHER -> 1
    IN  IF r + dr \in 1..Len(g) /\ c + dc \in 1..Len(g[1])
        THEN g[r + dr][c + dc] ELSE 0

\* B: the foreground pixels of the ring; A: its 0 -> 1 steps, P2 after P9.
RingB(g, r, c) == Cardinality({k \in 2..9 : RingPixel(g, r, c, k) = 1})

RingA(g, r, c) ==
    Cardinality({k \in 2..9 :
        /\ RingPixel(g, r, c, k) = 0
        /\ RingPixel(g, r, c, IF k = 9 THEN 2 ELSE k + 1) = 1})

\* The reference deletion test of a sub-iteration on the grid g.
RefMarked(g, r, c, step) ==
    /\ g[r][c] = 1
    /\ 2 <= RingB(g, r, c) /\ RingB(g, r, c) <= 6
    /\ RingA(g, r, c) = 1
    /\ IF step = 1
       THEN /\ RingPixel(g, r, c, 2) * RingPixel(g, r, c, 4)
                   * RingPixel(g, r, c, 6) = 0
            /\ RingPixel(g, r, c, 4) * RingPixel(g, r, c, 6)
                   * RingPixel(g, r, c, 8) = 0
       ELSE /\ RingPixel(g, r, c, 2) * RingPixel(g, r, c, 4)
                   * RingPixel(g, r, c, 8) = 0
            /\ RingPixel(g, r, c, 2) * RingPixel(g, r, c, 6)
                   * RingPixel(g, r, c, 8) = 0

\* The parallel reference step: every pixel decided on g, all cleared at once.
RefStep(g, step) ==
    [r \in 1..Len(g) |->
        [c \in 1..Len(g[1]) |->
            IF RefMarked(g, r, c, step) THEN 0 ELSE g[r][c]]]

\* A sub-iteration is the reference step on the grid it started from.
C17_StepIsReference ==
    /\ pc = "step1" => img' = RefStep(img, 1)
    /\ pc = "step2" => img' = RefStep(img, 2)

\* C17: every sub-iteration decides each pixel on the grid as it was when
\* the sub-iteration started and clears the marked pixels together; it
\* equals the parallel reference step with 2 <= B <= 6, A = 1 and
\* P2*P4*P6 = 0, P4*P6*P8 = 0 (sub-iteration 1) or P2*P4*P8 = 0,
\* P2*P6*P8 = 0 (sub-iteration 2), sub-iteration 2 working on the grid that
\* sub-iteration 1 of the same pass left.
C17_Snapshot == [][C17_StepIsReference]_vars

\* C17's case: sub-iteration 1 has just run on a grid on which a scan that
\* clears in place would have deleted other pixels.
C17_Witness ==
    /\ pc = "step2"
    /\ Len(hist) = 1
    /\ img = RefStep(Pad(image), 1)
    /\ to_delete_in_place(Pad(image), 1) # to_delete(Pad(image), 1)

\* The place of the step from p to q in the ring order clockwise from north:
\* N, NE, E, SE, S, SW, W, NW.
ClockRank(p, q) ==
    LET d == <<q[1] - p[1], q[2] - p[2]>>
    IN  CASE d = <<-1, 0>> -> 1 [] d = <<-1, 1>> -> 2 [] d = <<0, 1>> -> 3
          [] d = <<1, 1>> -> 4  [] d = <<1, 0>> -> 5  [] d = <<1, -1>> -> 6
          [] d = <<0, -1>> -> 7 [] d = <<-1, -1>> -> 8

\* C18: the tracer considers a node's neighbours clockwise from north (N,
\* NE, E, SE, S, SW, W, NW): the walks that leave one start node are in the
\* list in that order of their first step.
C18_ClockwiseOrder ==
    \A i, j \in 1..Len(walks) :
        (i < j /\ walks[i][1] = walks[j][1]) =>
            ClockRank(walks[i][1], walks[i][2])
                < ClockRank(walks[j][1], walks[j][2])

\* The paths of the glyph whose iteration of the for loop has placed its
\* first dot (0-based).
PathsBegun ==
    {k \in 0..(Len(font_paths) - 1) :
        /\ Len(font_paths[k + 1]) > 0
        /\ k < path_idx \/ (k = path_idx /\ pc = "segment")}

\* C19: the dot policy always places a marker at a path's first point: for
\* every path of a glyph, not only the first one processed, the list of
\* accepted dots holds a dot at that path's first point.
C19_FirstPointPlaced ==
    \A k \in PathsBegun :
        \E i \in 1..Len(placed_dots_px) :
            placed_dots_px[i] = font_paths[k + 1][1]

\* new is old after one reference round: as many points, the first and the
\* last kept, every interior point (p[i-1] + 2*p[i] + p[i+1]) / 4 of old.
IsRefRound(old, new) ==
    /\ Len(new) = Len(old)
    /\ new[1] = old[1]
    /\ new[Len(old)] = old[Len(old)]
    /\ \A i \in 2..(Len(old) - 1) :
           \A j \in 1..2 :
               4 * new[i][j] = old[i-1][j] + 2 * old[i][j] + old[i+1][j]

\* C14: smooth_path(path, k) is k reference rounds in sequence, each round
\* replacing every interior point by (p[i-1] + 2*p[i] + p[i+1]) / 4 of the
\* round before and keeping the first point, the last point and the number
\* of points; so smooth_path(path, 0) = path, and a path of fewer than 3
\* points is returned unchanged for every k.
C14_SmoothIsRounds ==
    /\ \A k \in 1..Len(sm_hist) :
           IsRefRound(IF k = 1 THEN sm_path ELSE sm_hist[k - 1], sm_hist[k])
    /\ pc = "smooth_returned" =>
           /\ Len(sm_path) < 3 => (sm_result = sm_path /\ sm_hist = <<>>)
           /\ sm_iterations = 0 => (sm_result = sm_path /\ sm_hist = <<>>)
           /\ (Len(sm_path) >= 3 /\ sm_iterations > 0) =>
                  /\ Len(sm_hist) = sm_iterations
                  /\ sm_result = sm_hist[sm_iterations]
           /\ sm_result = smooth_path(sm_path, sm_iterations)

\* C14's case: a path of four points has been smoothed twice, the second
\* round moving a point that the first round had moved already.
C14_Witness ==
    /\ pc = "smooth_returned"
    /\ Len(sm_path) = 4
    /\ sm_iterations = 2
    /\ sm_hist[1][2] # sm_path[2]
    /\ sm_result[2] # sm_hist[1][2]
    /\ SmoothRound_InPlace(sm_path) # sm_hist[1]

\* The path k (0-based) of the glyph as the dash stage walks it.
WalkedPath(k) ==
    IF smoothing_iters > 0
    THEN smooth_path(dash_paths[k + 1], smoothing_iters)
    ELSE dash_paths[k + 1]

\* The dashes of the path k, in the order emitted.
RECURSIVE DashesUpTo(_, _)
DashesUpTo(k, n) ==
    IF n = 0 THEN <<>>
    ELSE IF dashes[n].path = k
         THEN Append(DashesUpTo(k, n - 1), dashes[n])
         ELSE DashesUpTo(k, n - 1)

DashesOf(k) == DashesUpTo(k, Len(dashes))

\* The segment of a path that holds the point at arc length a, 0 < a <= the
\* path's length: the earlier one when the point is a shared vertex.
SegmentAtArc(path, a) ==
    CHOOSE i \in 1..(Len(path) - 1) :
        ArcLength(path, i - 1) < a /\ a <= ArcLength(path, i)

\* The tangent angle of the segment i of a path, in degrees.
TangentOf(path, i) ==
    atan2(path[i + 1][2] - path[i][2], path[i + 1][1] - path[i][1])

\* Every dash carries the tangent of the segment that holds its centre, a
\* centre on a shared vertex that of the earlier segment, negated once.
C11_TangentOfSegment ==
    \A n \in 1..Len(dashes) :
        LET path == WalkedPath(dashes[n].path)
        IN  dashes[n].f_angle
                = - TangentOf(path, SegmentAtArc(path, dashes[n].arc))

\* A walked path of one horizontal segment followed by one vertical one.
IsTurn(path) ==
    /\ Len(path) = 3
    /\ path[1][2] = path[2][2] /\ path[1][1] # path[2][1]
    /\ path[2][1] = path[3][1] /\ path[2][2] # path[3][2]

\* The paths of the glyph that are such turns.
Turns == {k \in 0..(Len(dash_paths) - 1) : IsTurn(WalkedPath(k))}

\* The first dash after the turn of the path k has angle 90 or -90 degrees
\* according to the direction of the vertical segment.
FirstAfterTurn(k) ==
    LET path == WalkedPath(k)
        ds   == DashesOf(k)
    IN  \A i \in 1..Len(ds) :
            (/\ ds[i].arc > ArcLength(path, 1)
             /\ i = 1 \/ ds[i - 1].arc <= ArcLength(path, 1)) =>
                ds[i].f_angle = IF path[3][2] > path[2][2] THEN -90 ELSE 90

\* The statement as first made: on a path of one horizontal segment followed
\* by one vertical segment, walked with dash length 4 and gap 2, every dash
\* of the horizontal portion has rotation angle 0, whichever way the
\* horizontal segment runs.
C11_HorizontalIsZero ==
    (pixel_dash_len = 4 * DashUnit /\ pixel_stride = 6 * DashUnit) =>
    \A k \in Turns :
        LET path == WalkedPath(k)
            ds   == DashesOf(k)
        IN  /\ \A i \in 1..Len(ds) :
                   ds[i].arc <= ArcLength(path, 1) => ds[i].f_angle = 0
            /\ FirstAfterTurn(k)

\* C11: every dash carries the tangent of the segment that holds its centre
\* (the earlier segment for a centre on a shared vertex), negated once for
\* the Y flip; on a path of one horizontal segment followed by one vertical
\* segment every dash of the horizontal portion has rotation angle 0 when
\* that segment runs in the +x direction and -180 degrees when it runs in
\* the -x direction, and the first dash after the turn has angle 90 or -90
\* degrees according to the vertical segment's direction.
C11_DashOrientation ==
    /\ C11_TangentOfSegment
    /\ \A k \in Turns :
           LET path == WalkedPath(k)
               ds   == DashesOf(k)
           IN  /\ \A i \in 1..Len(ds) :
                      ds[i].arc <= ArcLength(path, 1) =>
                          ds[i].f_angle =
                              IF path[2][1] > path[1][1] THEN 0 ELSE -180
               /\ FirstAfterTurn(k)

\* C11's case: the two paths of the orientation scenario have been walked
\* with dash length 4 and gap 2; each has two dashes on its horizontal
\* segment, the second on the corner, and one after the turn.
C11_Witness ==
    /\ pc = "dashes_done"
    /\ dash_paths = OrientationScenario.paths
    /\ pixel_dash_len = OrientationScenario.dash_len
    /\ Len(dashes) = 6
    /\ dashes[2].pt = dash_paths[1][2] /\ dashes[2].f_angle = 0
    /\ dashes[3].f_angle = -90
    /\ dashes[5].pt = dash_paths[2][2] /\ dashes[5].f_angle = -180
    /\ dashes[6].f_angle = 90

\* The segments of the path k walked so far.
DashSegmentsDone(k) ==
    IF Len(dash_paths[k + 1]) = 0 THEN 0
    ELSE IF k < dash_path_idx THEN Len(dash_paths[k + 1]) - 1
    ELSE IF k = dash_path_idx /\ pc = "dash_segment" THEN dash_seg_idx
    ELSE 0

\* The dash centres due on a path once its first n segments are walked: the
\* arc lengths pixel_dash_len / 2 + j * pixel_stride up to the length
\* walked, each with the point of the path there.
DueDashes(path, n) ==
    LET walked == IF n = 0 THEN 0 ELSE ArcLength(path, n)
        first  == pixel_dash_len \div 2
        number == IF walked < first THEN 0
                  ELSE (walked - first) \div pixel_stride + 1
    IN  [j \in 1..number |->
            [arc |-> first + (j - 1) * pixel_stride,
             pt  |-> PointAtArc(path, first + (j - 1) * pixel_stride)]]

\* C20: on each path the dash centres are exactly the points at arc length
\* L_px / 2 + j * (L_px + G_px), j = 0, 1, 2, ..., up to the length of the
\* path, each emitted once (a centre on a vertex shared by two segments
\* too), however the path is cut into segments, zero-length segments
\* included; a path shorter than L_px / 2 gets no dash and the schedule
\* starts over at L_px / 2 on every path, whatever the other paths got.
C20_DashSchedule ==
    \A k \in 0..(Len(dash_paths) - 1) :
        LET ds   == DashesOf(k)
            path == WalkedPath(k)
        IN  [j \in 1..Len(ds) |-> [arc |-> ds[j].arc, pt |-> ds[j].pt]]
                = DueDashes(path, DashSegmentsDone(k))

\* C20's case: both paths of the orientation scenario have been walked;
\* each got its dashes at arc lengths 2, 8 and 14, the one at 8 on the
\* vertex shared by its two segments.
C20_Witness ==
    /\ pc = "dashes_done"
    /\ dash_paths = OrientationScenario.paths
    /\ pixel_stride = 6 * DashUnit
    /\ \A k \in {0, 1} :
           /\ Len(DashesOf(k)) = 3
           /\ DashesOf(k)[1].arc = 2 * DashUnit
           /\ DashesOf(k)[2].arc = 8 * DashUnit
           /\ DashesOf(k)[2].pt = dash_paths[k + 1][2]
           /\ DashesOf(k)[3].arc = 14 * DashUnit

\* The glyph entry as the rewrite to a composite of n markers leaves it.
IsCompositeOf(n) ==
    /\ glyph.numberOfContours = -1
    /\ Len(glyph.components) = n
    /\ count = 1

\* The glyph entry has not been written and the glyph was not counted.
GlyphUntouched == glyph = OriginalGlyph /\ count = 0

\* C15: a glyph whose marker set is empty (no path, or no dot or dash
\* emitted) keeps its entry of the glyf table, numberOfContours and
\* components as they were, and is not counted as processed; a glyph is
\* rewritten as a composite, and counted, only when it has at least one
\* marker, and nothing is written before its markers are all computed.
C15_EmptyLeavesGlyph ==
    /\ pc \notin {"dots_done", "dashes_done"} => GlyphUntouched
    /\ pc = "dots_done" =>
           IF placed_dots_px = <<>> THEN GlyphUntouched
           ELSE IsCompositeOf(Len(placed_dots_px))
    /\ pc = "dashes_done" =>
           IF dashes = <<>> THEN GlyphUntouched
           ELSE IsCompositeOf(Len(dashes))

\* C15's case: the dash stage has walked a glyph with a path of two points
\* at least and emitted no dash; the glyph entry is as it was.
C15_Witness ==
    /\ pc = "dashes_done"
    /\ dashes = <<>>
    /\ \E k \in 1..Len(dash_paths) : Len(dash_paths[k]) >= 2
    /\ GlyphUntouched

\* The unordered node pairs the walks so far traversed.
TracedEdges == UNION {EdgesOf(walks[i]) : i \in 1..Len(walks)}

\* C21: no edge is traced twice: at every point of a call of trace_skeleton
\* the consecutive node pairs of all walks so far are as many as the
\* distinct unordered pairs among them, these are exactly the pairs in
\* visited_edges, and each is a pair of 8-adjacent skeleton nodes.
C21_NoEdgeTwice ==
    LET traced == TracedEdges
    IN  /\ EdgeCount(walks) = Cardinality(traced)
        /\ visited_edges = traced
        /\ \A e \in traced :
               /\ \A n \in e : skeleton[n[1] + 1][n[2] + 1] = 1
               /\ \E p, q \in e : Adjacent8(p, q)

\* C21's case: trace_skeleton has returned two walks at least that meet in
\* a node, one of them of two edges or more, so that later walks found edges
\* already visited.
C21_Witness ==
    /\ pc = "traced"
    /\ \E i, j \in 1..Len(walks) :
           /\ i # j
           /\ Len(walks[i]) >= 3
           /\ \E n \in 1..Len(walks[i]), m \in 1..Len(walks[j]) :
                  walks[i][n] = walks[j][m]
    /\ Cardinality(visited_edges) >= 3

\* A singular node: one of degree other than 2, or the synthetic start of a
\* pure loop (the first node of a skeleton whose nodes all have degree 2).
Singular(n) ==
    \/ Len(graph(skeleton, n)) # 2
    \/ /\ \A m \in Foreground(skeleton) : Len(graph(skeleton, m)) = 2
       /\ n = FirstNode(skeleton)

\* The first and the last element of a walk or of a path.
FirstOf(seq) == seq[1]

LastOf(seq) == seq[Len(seq)]

\* The pixel coordinates (x, y) = (col, row) of a node, in units.
PixelOf(n) == <<n[2] * Unit, n[1] * Unit>>

\* C22: every path of trace_skeleton begins and ends at the exact pixel
\* coordinates of a singular node (an endpoint, a junction or the synthetic
\* start of a pure loop): no walk stops at an interior node of degree 2, and
\* the smoothing leaves the first and the last point of each path where they
\* were, so that a closed path has its first point equal to its last and
\* the paths that meet at a junction share its coordinates.
C22_PathsEndOnSingularNodes ==
    /\ Len(paths) = Len(walks)
    /\ \A i \in 1..Len(walks) :
           /\ Singular(FirstOf(walks[i]))
           /\ Singular(LastOf(walks[i]))
           /\ Len(paths[i]) = Len(walks[i])
           /\ FirstOf(paths[i]) = PixelOf(FirstOf(walks[i]))
           /\ LastOf(paths[i]) = PixelOf(LastOf(walks[i]))
           /\ FirstOf(walks[i]) = LastOf(walks[i]) =>
                  FirstOf(paths[i]) = LastOf(paths[i])

\* C22's case: trace_skeleton has returned a path that smoothing moved, and
\* that still ends on a junction where another path ends too.
C22_Witness ==
    /\ pc = "traced"
    /\ \E i, j \in 1..Len(walks) :
           /\ i # j
           /\ Len(walks[i]) >= 3
           /\ paths[i] # [k \in 1..Len(walks[i]) |-> PixelOf(walks[i][k])]
           /\ \E a \in {1, Len(walks[i])}, b \in {1, Len(walks[j])} :
                  /\ walks[i][a] = walks[j][b]
                  /\ walks[i][a] \in junctions
                  /\ paths[i][a] = paths[j][b]

\* The path lists trace_skeleton can return on a skeleton, one for each
\* order in which its sets of start nodes can iterate, from start nodes
\* pend still to come and the state t = [visited, walks, paths].
RECURSIVE TraceOutcomesFrom(_, _, _)
TraceOutcomesFrom(sk, pend, t) ==
    IF pend = {} THEN {t.paths}
    ELSE LET E == EndpointsOf(sk)
             starts == IF pend \cap E # {} THEN pend \cap E ELSE pend
         IN  UNION {TraceOutcomesFrom(sk, pend \ {n},
                        FromNeighbors(sk, JunctionsOf(sk), E, n, 1, t)) :
                    n \in starts}

\* The same on a call of its own, which starts with no edge visited.
TraceOutcomes(sk) ==
    IF Foreground(sk) = {} THEN {<<>>}
    ELSE TraceOutcomesFrom(sk, StartNodes(sk),
             [visited |-> {}, walks |-> <<>>, paths |-> <<>>])

\* The dot candidates of the first k paths of a glyph, every path's arc
\* length counted from its own first point.
RECURSIVE DueOnPaths(_, _)
DueOnPaths(ps, k) ==
    IF k = 0 THEN <<>>
    ELSE DueOnPaths(ps, k - 1)
             \o (IF Len(ps[k]) = 0 THEN <<>>
                 ELSE DueCandidates(ps[k], Len(ps[k]) - 1))

\* The dots placed when the first n of these candidates are offered to a
\* list of placed dots that starts empty.
RECURSIVE PlacedOf(_, _)
PlacedOf(cands, n) ==
    IF n = 0 THEN <<>>
    ELSE add_dot_checked(PlacedOf(cands, n - 1), pixel_spacing, cands[n])

\* What a glyph of grid g ends with when it is processed on its own, for
\* each order in which the tracer's sets can iterate.
GlyphAlone(g) ==
    {LET cands == DueOnPaths(InDotUnits(ps), Len(ps))
         dots  == PlacedOf(cands, Len(cands))
     IN  [paths |-> ps,
          dots  |-> dots,
          glyph |-> IF dots = <<>> THEN OriginalGlyph
                    ELSE [numberOfContours |-> -1,
                          components |-> [i \in 1..Len(dots) |->
                              [glyphName |-> "dot", flags |-> 0]]]] :
     ps \in TraceOutcomes(skeletonize(g))}

\* C23: glyph independence: the paths, the dots and the glyf table entry a
\* glyph ends with are those it ends with when it is processed on its own,
\* with the same spacing, whatever glyph was processed before it; the
\* tracer's visited_edges holds the edges of the current glyph's walks
\* only, and the dots placed are among the current glyph's candidates.
C23_GlyphIndependence ==
    /\ \A i \in 1..Len(produced) : produced[i] \in GlyphAlone(glyph_order[i])
    /\ pc \in {"tracing", "traced"} => visited_edges = TracedEdges
    /\ pc \in {"path", "segment", "dots_done"} =>
           \A i \in 1..Len(placed_dots_px) :
               \E n \in 1..Len(candidates) :
                   /\ candidates[n].pt = placed_dots_px[i]
                   /\ candidates[n].accepted

\* C23's case: a font of twice the same glyph of two strokes has been
\* processed; the second glyph ended with two paths and with dots, and both
\* glyphs were rewritten.
C23_Witness ==
    /\ pc = "glyph"
    /\ Len(produced) = 2
    /\ glyph_order[1] = glyph_order[2]
    /\ Len(produced[2].paths) = 2
    /\ produced[2].dots # <<>>
    /\ produced[1].dots # <<>>
    /\ count = 2

====
